---- MODULE Spec2Model ----
(***************************************************************************)
(* PriceLens pipeline (src/pricelens_pipeline.py).                         *)
(*                                                                         *)
(* run_pricelens_pipeline validates the transcript, builds a fresh crew    *)
(* from the process environment (build_pricelens_crew) and kicks it off;   *)
(* the crew runs its two tasks sequentially, each task being a series of   *)
(* backend (LLM) calls, and the value kickoff returns is unwrapped by      *)
(* attribute probing into the text handed back to the caller.              *)
(*                                                                         *)
(* Texts are sequences of tokens.  The literal prose of a task description *)
(* is abstracted to opaque marker tokens; a "{name}" token is a            *)
(* substitution slot.  A transcript is a sequence of characters " " / "x". *)
(***************************************************************************)
EXTENDS Integers, Sequences, FiniteSets, TLC

VARIABLES
    env,           \* os.environ: the three variables the pipeline reads
    dotenv,        \* the OPENAI_API_KEY entry of the local .env file
    windowCalls,   \* backend calls issued by the whole process in the current minute
    pc,            \* per run: position inside run_pricelens_pipeline
    args,          \* per run: the arguments of the call
    crew,          \* per run: the llm settings of the crew this run built
    rpmCount,      \* per run: request counter of this run's crew (max_rpm limiter)
    taskIdx,       \* per run: index in tasks of the task being executed
    iters,         \* per run: iterations used by the agent on the current task
    calls,         \* per run: backend calls issued for each task
    instructions,  \* per run: the instructions composed for each task
    task_outputs,  \* per run: texts produced by the finished non-final tasks
    result,        \* per run: the object crew.kickoff returned (0 or 1 element)
    output,        \* per run: the text returned to the caller (0 or 1 element)
    failure,       \* per run: the exception the crew raised inside kickoff
    error,         \* per run: the exception run_pricelens_pipeline raised
    response       \* per run: HTTP status the /analyze handler answered (0: none yet)

vars == <<env, dotenv, windowCalls, pc, args, crew, rpmCount, taskIdx, iters,
          calls, instructions, task_outputs, result, output, failure, error,
          response>>

procVars == <<env, dotenv, windowCalls>>

-----------------------------------------------------------------------------
(* Bounds of the model *)

NumRuns == 2
MaxBody == 10

(* Program constants *)

MinTranscriptLen == 10
max_rpm == 10
max_iter == 3
max_tokens == 4000

Runs == 1..NumRuns

None == "None"
PLACEHOLDER == "your_openai_api_key_here"
DEFAULT_MODEL == "gpt-4o-mini"
DEFAULT_TEMPERATURE == "0.2"

-----------------------------------------------------------------------------
(* Texts *)

RECURSIVE Repeat(_, _)
Repeat(c, n) == IF n = 0 THEN <<>> ELSE <<c>> \o Repeat(c, n - 1)

Pads == {<<>>, <<" ">>}

Transcripts ==
    {l \o Repeat("x", n) \o r : l \in Pads, r \in Pads, n \in 0..MaxBody}

ProductTypes == {<<"SaaS">>, <<"B2B">>}
Stages == {<<"Pre-revenue">>, <<"Growth">>}

OutTexts == {<<>>, <<"a">>, <<"b">>}

IsSpace(c) == c = " "

RECURSIVE LStrip(_)
LStrip(s) == IF s # <<>> /\ IsSpace(Head(s)) THEN LStrip(Tail(s)) ELSE s

RECURSIVE RStrip(_)
RStrip(s) ==
    IF s # <<>> /\ IsSpace(s[Len(s)]) THEN RStrip(SubSeq(s, 1, Len(s) - 1)) ELSE s

\* str.strip()
Strip(s) == RStrip(LStrip(s))

\* needle in haystack, for texts
Contains(hay, needle) ==
    \E i \in 0..(Len(hay) - Len(needle)) :
        SubSeq(hay, i + 1, i + Len(needle)) = needle

-----------------------------------------------------------------------------
(* Task descriptions and their interpolation *)

\* Task.description of analysis_task: prose only, no substitution slot
analysis_description == <<"ANALYSIS_PROSE">>

\* Task.description of strategy_task: prose around two slots
strategy_description ==
    <<"STRATEGY_INTRO", "{product_type}", "STRATEGY_NEXT", "{stage}", "STRATEGY_PROSE">>

tasks_swapped == <<"strategy_task", "analysis_task">>

\* tasks=[analysis_task, strategy_task] of the Crew
tasks == <<"analysis_task", "strategy_task">>

TaskNames == {"analysis_task", "strategy_task"}

Description(task) ==
    IF task = "analysis_task" THEN analysis_description ELSE strategy_description

\* the inputs dict handed to crew.kickoff
Inputs(a) ==
    [transcript |-> Strip(a.transcript),
     product_type |-> a.product_type,
     stage |-> a.stage]

SlotValue(tok, inputs) ==
    CASE tok = "{transcript}" -> inputs.transcript
      [] tok = "{product_type}" -> inputs.product_type
      [] tok = "{stage}" -> inputs.stage
      [] OTHER -> <<tok>>

\* kickoff(inputs=...) substitutes the inputs into the slots of a description
RECURSIVE Interpolate(_, _)
Interpolate(template, inputs) ==
    IF template = <<>> THEN <<>>
    ELSE SlotValue(Head(template), inputs) \o Interpolate(Tail(template), inputs)

RECURSIVE Flatten(_)
Flatten(texts) ==
    IF texts = <<>> THEN <<>> ELSE Head(texts) \o Flatten(Tail(texts))

\* Process.sequential: the outputs of the earlier tasks are the context of a task
Context(outs) == IF outs = <<>> THEN <<>> ELSE <<"CONTEXT">> \o Flatten(outs)

ComposeInstructions(task, inputs, outs) ==
    Interpolate(Description(task), inputs) \o Context(outs)

-----------------------------------------------------------------------------
(* Configuration read by build_pricelens_crew *)

ApiKeys == {None, "", PLACEHOLDER, "sk-live"}
DotenvKeys == {None, "sk-file"}
ModelNames == {None, "gpt-4o"}
TemperatureStrings == {None, "0.7", "hot"}

Envs ==
    [OPENAI_API_KEY : ApiKeys,
     OPENAI_MODEL_NAME : ModelNames,
     OPENAI_TEMPERATURE : TemperatureStrings]

\* load_dotenv(): a key of the .env file is set unless the environment has it
LoadDotenv(e, f) ==
    IF e.OPENAI_API_KEY = None /\ f # None
    THEN [e EXCEPT !.OPENAI_API_KEY = f]
    ELSE e

CredentialOk_no_placeholder(k) == ~(k = None \/ k = "")

\* not (not api_key or api_key == "your_openai_api_key_here")
CredentialOk(k) == ~(k = None \/ k = "" \/ k = PLACEHOLDER)

\* os.getenv(name, default)
Getenv(e, name, default) == IF e[name] = None THEN default ELSE e[name]

\* float(s), in tenths; -1 stands for the ValueError of an unparsable string
Float(s) ==
    CASE s = "0.2" -> 2
      [] s = "0.7" -> 7
      [] OTHER -> -1

NoCrew == [model |-> None, temperature |-> -1, max_tokens |-> 0, api_key |-> None]

\* build_pricelens_crew on the environment e (after load_dotenv):
\* the exception it raises ("none" when it returns) and the llm of the crew
BuildError(e) ==
    IF ~CredentialOk(e.OPENAI_API_KEY) THEN "ValueError: OPENAI_API_KEY is required"
    ELSE IF Float(Getenv(e, "OPENAI_TEMPERATURE", DEFAULT_TEMPERATURE)) < 0
         THEN "ValueError: could not convert string to float"
         ELSE "none"

BuildLlm_defaults_only(e) ==
    [model |-> DEFAULT_MODEL,
     temperature |-> Float(DEFAULT_TEMPERATURE),
     max_tokens |-> max_tokens,
     api_key |-> e.OPENAI_API_KEY]

BuildLlm(e) ==
    [model |-> Getenv(e, "OPENAI_MODEL_NAME", DEFAULT_MODEL),
     temperature |-> Float(Getenv(e, "OPENAI_TEMPERATURE", DEFAULT_TEMPERATURE)),
     max_tokens |-> max_tokens,
     api_key |-> e.OPENAI_API_KEY]

-----------------------------------------------------------------------------
(* The value crew.kickoff returns and its unwrapping *)

ResultTexts == {<<>>, <<"a">>}

\* a result object: which accessors it has, their values, and its str()
ResultObjects ==
    {o \in [has_raw : BOOLEAN, raw : ResultTexts,
            has_content : BOOLEAN, content : ResultTexts,
            str : ResultTexts] :
        /\ (~o.has_raw => o.raw = <<>>)
        /\ (~o.has_content => o.content = <<>>)}

Normalize_content_first(o) ==
    IF o.has_content THEN o.content
    ELSE IF o.has_raw THEN o.raw
         ELSE o.str

\* the hasattr chain of run_pricelens_pipeline
Normalize(o) ==
    IF o.has_raw THEN o.raw
    ELSE IF o.has_content THEN o.content
         ELSE o.str

ReportBody_first_task(outs, o) == outs[1]

\* what run_pricelens_pipeline returns: the unwrapped kickoff result
ReportBody(outs, o) == Normalize(o)

TranscriptOk_untrimmed(t) == ~(t = <<>> \/ Len(t) < MinTranscriptLen)

\* the transcript check of run_pricelens_pipeline
TranscriptOk(t) == ~(t = <<>> \/ Len(Strip(t)) < MinTranscriptLen)

\* exceptions the crew raises out of a task
StageFailures == {"BackendUnavailable", "Timeout"}

Reraise_wrapped(e) == "RuntimeError: pipeline failed"

\* except Exception as e: logger.error(...); raise
Reraise(e) == e

-----------------------------------------------------------------------------
(* State *)

NoArgs == [transcript |-> <<>>, product_type |-> <<>>, stage |-> <<>>]

AllArgs == [transcript : Transcripts, product_type : ProductTypes, stage : Stages]

Terminal == {"returned", "raised"}

InitRuns ==
    /\ windowCalls = 0
    /\ pc = [r \in Runs |-> "idle"]
    /\ args = [r \in Runs |-> NoArgs]
    /\ crew = [r \in Runs |-> NoCrew]
    /\ rpmCount = [r \in Runs |-> 0]
    /\ taskIdx = [r \in Runs |-> 0]
    /\ iters = [r \in Runs |-> 0]
    /\ calls = [r \in Runs |-> [t \in TaskNames |-> 0]]
    /\ instructions = [r \in Runs |-> [t \in TaskNames |-> <<>>]]
    /\ task_outputs = [r \in Runs |-> <<>>]
    /\ result = [r \in Runs |-> <<>>]
    /\ output = [r \in Runs |-> <<>>]
    /\ failure = [r \in Runs |-> "none"]
    /\ error = [r \in Runs |-> "none"]
    /\ response = [r \in Runs |-> 0]

Init ==
    /\ env \in Envs
    /\ dotenv \in DotenvKeys
    /\ InitRuns

-----------------------------------------------------------------------------
(* run_pricelens_pipeline, step by step *)

\* the call and its transcript check
RunPipeline(r, a) ==
    /\ pc[r] = "idle"
    /\ args' = [args EXCEPT ![r] = a]
    /\ IF TranscriptOk(a.transcript)
       THEN /\ pc' = [pc EXCEPT ![r] = "validated"]
            /\ error' = error
       ELSE /\ pc' = [pc EXCEPT ![r] = "raised"]
            /\ error' = [error EXCEPT ![r] =
                  "ValueError: Transcript must be at least 10 characters long"]
    /\ UNCHANGED <<response, procVars, crew, rpmCount, taskIdx, iters, calls, instructions,
                   task_outputs, result, output, failure>>

\* crew = build_pricelens_crew()
BuildCrew(r) ==
    /\ pc[r] = "validated"
    /\ env' = LoadDotenv(env, dotenv)
    /\ IF BuildError(env') = "none"
       THEN /\ crew' = [crew EXCEPT ![r] = BuildLlm(env')]
            /\ pc' = [pc EXCEPT ![r] = "kickoff"]
            /\ error' = error
       ELSE /\ crew' = crew
            /\ pc' = [pc EXCEPT ![r] = "raised"]
            /\ error' = [error EXCEPT ![r] = Reraise(BuildError(env'))]
    /\ UNCHANGED <<response, dotenv, windowCalls, args, rpmCount, taskIdx, iters, calls,
                   instructions, task_outputs, result, output, failure>>

\* crew.kickoff, Process.sequential: the next task of the list starts
StartTask(r) ==
    /\ pc[r] \in {"kickoff", "task_done"}
    /\ taskIdx[r] < Len(tasks)
    /\ taskIdx' = [taskIdx EXCEPT ![r] = @ + 1]
    /\ iters' = [iters EXCEPT ![r] = 0]
    /\ instructions' = [instructions EXCEPT ![r][tasks[taskIdx[r] + 1]] =
          ComposeInstructions(tasks[taskIdx[r] + 1], Inputs(args[r]), task_outputs[r])]
    /\ pc' = [pc EXCEPT ![r] = "running"]
    /\ UNCHANGED <<response, procVars, args, crew, rpmCount, calls, task_outputs, result,
                   output, failure, error>>

\* max_rpm=10: the crew's own request counter admits the call
Admits(r) == rpmCount[r] < max_rpm

\* one backend call of the running task
IssueCall(r) ==
    /\ pc[r] = "running"
    /\ iters[r] < max_iter
    /\ Admits(r)
    /\ rpmCount' = [rpmCount EXCEPT ![r] = @ + 1]
    /\ windowCalls' = windowCalls + 1
    /\ calls' = [calls EXCEPT ![r][tasks[taskIdx[r]]] = @ + 1]
    /\ iters' = [iters EXCEPT ![r] = @ + 1]

\* the call's answer is not final: the agent iterates again
Iterate(r) ==
    /\ IssueCall(r)
    /\ iters[r] + 1 < max_iter
    /\ UNCHANGED <<response, env, dotenv, pc, args, crew, taskIdx, instructions, task_outputs,
                   result, output, failure, error>>

\* the call gives the final answer of a task that is not the last one
FinishTask(r, t) ==
    /\ IssueCall(r)
    /\ taskIdx[r] < Len(tasks)
    /\ task_outputs' = [task_outputs EXCEPT ![r] = Append(@, t)]
    /\ pc' = [pc EXCEPT ![r] = "task_done"]
    /\ UNCHANGED <<response, env, dotenv, args, crew, taskIdx, instructions, result, output,
                   failure, error>>

\* the call gives the final answer of the last task: kickoff returns o,
\* which is unwrapped and returned
FinishKickoff(r, o) ==
    /\ IssueCall(r)
    /\ taskIdx[r] = Len(tasks)
    /\ result' = [result EXCEPT ![r] = <<o>>]
    /\ output' = [output EXCEPT ![r] = <<ReportBody(task_outputs[r], o)>>]
    /\ pc' = [pc EXCEPT ![r] = "returned"]
    /\ UNCHANGED <<response, env, dotenv, args, crew, taskIdx, instructions, task_outputs,
                   failure, error>>

AfterFailure_retry == "running"

\* where a run is once kickoff has raised: out of the function, by the raise
AfterFailure == "raised"

\* the call fails: kickoff raises, the except clause logs and re-raises
FailTask(r, f) ==
    /\ IssueCall(r)
    /\ failure' = [failure EXCEPT ![r] = f]
    /\ error' = [error EXCEPT ![r] = Reraise(f)]
    /\ pc' = [pc EXCEPT ![r] = AfterFailure]
    /\ UNCHANGED <<response, env, dotenv, args, crew, taskIdx, instructions, task_outputs,
                   result, output>>

\* a minute passes: the request counters start again
WindowTick ==
    /\ windowCalls > 0
    /\ windowCalls' = 0
    /\ rpmCount' = [r \in Runs |-> 0]
    /\ UNCHANGED <<response, env, dotenv, pc, args, crew, taskIdx, iters, calls, instructions,
                   task_outputs, result, output, failure, error>>

-----------------------------------------------------------------------------
(* One call of run_pricelens_pipeline, over all its inputs *)

Solo == {1}

Next ==
    \/ \E r \in Solo, a \in AllArgs : RunPipeline(r, a)
    \/ \E r \in Solo : BuildCrew(r)
    \/ \E r \in Solo : StartTask(r)
    \/ \E r \in Solo : Iterate(r)
    \/ \E r \in Solo, t \in OutTexts : FinishTask(r, t)
    \/ \E r \in Solo, o \in ResultObjects : FinishKickoff(r, o)
    \/ \E r \in Solo, f \in StageFailures : FailTask(r, f)
    \/ WindowTick

Spec == Init /\ [][Next]_vars

-----------------------------------------------------------------------------
(* Concurrent calls of run_pricelens_pipeline in one process *)

ConcArgs ==
    [transcript : {Repeat("x", MinTranscriptLen)},
     product_type : {<<"SaaS">>},
     stage : {<<"Pre-revenue">>}]

ConcEnvs ==
    {e \in Envs : /\ e.OPENAI_API_KEY \in {"sk-live", PLACEHOLDER}
                  /\ e.OPENAI_MODEL_NAME = None
                  /\ e.OPENAI_TEMPERATURE = None}

ConcTexts == {<<"a">>}

ConcResults == {o \in ResultObjects : o.has_raw /\ ~o.has_content /\ o.raw = o.str}

InitConc ==
    /\ env \in ConcEnvs
    /\ dotenv = None
    /\ InitRuns

NextConc ==
    \/ \E r \in Runs, a \in ConcArgs : RunPipeline(r, a)
    \/ \E r \in Runs : BuildCrew(r)
    \/ \E r \in Runs : StartTask(r)
    \/ \E r \in Runs : Iterate(r)
    \/ \E r \in Runs, t \in ConcTexts : FinishTask(r, t)
    \/ \E r \in Runs, o \in ConcResults : FinishKickoff(r, o)
    \/ \E r \in Runs, f \in StageFailures : FailTask(r, f)
    \/ WindowTick

SpecConc == InitConc /\ [][NextConc]_vars

-----------------------------------------------------------------------------
(* Properties *)

NonSpace(t) == {i \in 1..Len(t) : t[i] # " "}

\* length of t without its leading and trailing blanks, by position
TrimmedLength(t) ==
    IF NonSpace(t) = {} THEN 0
    ELSE (CHOOSE i \in NonSpace(t) : \A j \in NonSpace(t) : j <= i)
         - (CHOOSE i \in NonSpace(t) : \A j \in NonSpace(t) : i <= j) + 1

Called(r) == pc[r] # "idle"

TotalCalls(r) == calls[r]["analysis_task"] + calls[r]["strategy_task"]

ValidationFailure == "ValueError: Transcript must be at least 10 characters long"

ConfigurationFailure == "ValueError: OPENAI_API_KEY is required"

\* C1: a call whose transcript has trimmed length below 10 ends with the
\* validation failure, having built no crew, started no task and issued no
\* backend call, whatever the other arguments and the environment are.
C1_ShortTranscriptRejected ==
    \A r \in Runs :
        (Called(r) /\ TrimmedLength(args[r].transcript) < 10) =>
            /\ pc[r] = "raised"
            /\ error[r] = ValidationFailure
            /\ crew[r] = NoCrew
            /\ taskIdx[r] = 0
            /\ TotalCalls(r) = 0
            /\ windowCalls = 0
            /\ output[r] = <<>>

C1_Witness ==
    \E r \in Runs :
        /\ pc[r] = "raised"
        /\ TrimmedLength(args[r].transcript) = 9
        /\ Len(args[r].transcript) >= 10
        /\ env.OPENAI_API_KEY = None

StrategyStarted(r) ==
    \/ calls[r]["strategy_task"] > 0
    \/ instructions[r]["strategy_task"] # <<>>
    \/ (taskIdx[r] > 0 /\ tasks[taskIdx[r]] = "strategy_task")

\* C2: the strategy task (Stage 2) is running or finished only when the analysis
\* task (Stage 1) has issued its calls and produced its output.
C2_Stage1BeforeStage2 ==
    \A r \in Runs :
        StrategyStarted(r) =>
            /\ calls[r]["analysis_task"] >= 1
            /\ instructions[r]["analysis_task"] # <<>>
            /\ Len(task_outputs[r]) >= 1

C2_Witness ==
    \E r \in Runs :
        /\ pc[r] = "returned"
        /\ calls[r]["strategy_task"] = 2
        /\ calls[r]["analysis_task"] = 3

\* C3: when a task fails, run_pricelens_pipeline raises that same failure, no
\* later task is started or called, and nothing is returned to the caller.
C3_StageFailurePropagates ==
    \A r \in Runs :
        failure[r] # "none" =>
            /\ pc[r] = "raised"
            /\ error[r] = failure[r]
            /\ output[r] = <<>>
            /\ result[r] = <<>>
            /\ \A j \in (taskIdx[r] + 1)..Len(tasks) :
                  /\ calls[r][tasks[j]] = 0
                  /\ instructions[r][tasks[j]] = <<>>

C3_Witness ==
    \E r \in Runs :
        /\ failure[r] = "BackendUnavailable"
        /\ tasks[taskIdx[r]] = "analysis_task"
        /\ calls[r]["analysis_task"] = 1
        /\ calls[r]["strategy_task"] = 0

\* C4: when both tasks succeed, the text returned is the unwrapped result of the
\* strategy task (the value kickoff returned), not the analysis task's output.
C4_ReportIsStage2Output ==
    \A r \in Runs :
        pc[r] = "returned" =>
            /\ Len(result[r]) = 1
            /\ output[r] = <<Normalize(result[r][1])>>

C4_Witness ==
    \E r \in Runs :
        /\ pc[r] = "returned"
        /\ task_outputs[r] = << <<"b">> >>
        /\ output[r] = << <<"a">> >>

\* context_variables of the two tasks
context_variables ==
    [analysis_task |-> {"transcript"},
     strategy_task |-> {"analysis_task_output", "product_type", "stage"}]

ContextValue(r, key) ==
    CASE key = "transcript" -> Inputs(args[r]).transcript
      [] key = "product_type" -> args[r].product_type
      [] key = "stage" -> args[r].stage
      [] key = "analysis_task_output" -> task_outputs[r][1]

\* C5: the instructions composed for a task contain the value of every one of
\* its required context keys: the analysis task's contain the transcript, the
\* strategy task's contain the analysis output, the product type and the stage.
C5_InstructionsContainContext ==
    \A r \in Runs : \A t \in TaskNames :
        instructions[r][t] # <<>> =>
            \A key \in context_variables[t] :
                Contains(instructions[r][t], ContextValue(r, key))

\* C6: the text returned is the result's raw when it has one, otherwise its
\* content when it has one, otherwise its str().
C6_NormalizePriority ==
    \A r \in Runs :
        pc[r] = "returned" =>
            LET o == result[r][1] IN
            /\ o.has_raw => output[r] = <<o.raw>>
            /\ (~o.has_raw /\ o.has_content) => output[r] = <<o.content>>
            /\ (~o.has_raw /\ ~o.has_content) => output[r] = <<o.str>>

C6_Witness ==
    \E r \in Runs :
        /\ pc[r] = "returned"
        /\ ~result[r][1].has_raw
        /\ result[r][1].has_content
        /\ result[r][1].content # result[r][1].str

CarriesText(o) ==
    \/ (o.has_raw /\ o.raw # <<>>)
    \/ (o.has_content /\ o.content # <<>>)
    \/ o.str # <<>>

\* C7: a result carrying non-empty text under any of the three routes never
\* yields an empty report, and a result empty under all three is not returned
\* (the run fails instead).
C7_NeverEmptyReport ==
    \A r \in Runs :
        pc[r] = "returned" => (CarriesText(result[r][1]) /\ output[r] # << <<>> >>)

\* C8: with a valid transcript, an absent, empty or placeholder credential ends
\* the run at build_pricelens_crew with the credential failure, no task started
\* and no backend call issued; any other credential never gives that failure.
C8_CredentialChecked ==
    \A r \in Runs :
        (pc[r] \notin {"idle", "validated"} /\ TrimmedLength(args[r].transcript) >= 10) =>
            IF env.OPENAI_API_KEY \in {None, "", PLACEHOLDER}
            THEN /\ pc[r] = "raised"
                 /\ error[r] = ConfigurationFailure
                 /\ crew[r] = NoCrew
                 /\ taskIdx[r] = 0
                 /\ TotalCalls(r) = 0
                 /\ windowCalls = 0
            ELSE error[r] # ConfigurationFailure

C8_Witness ==
    \E r \in Runs :
        /\ pc[r] = "raised"
        /\ TrimmedLength(args[r].transcript) >= 10
        /\ env.OPENAI_API_KEY = PLACEHOLDER

\* C9: the backend calls issued by all runs of the process within one minute
\* never exceed the requests-per-minute cap.
C9_ProcessWideRateLimit == windowCalls <= max_rpm

\* C10: while the process-wide budget of the current minute is exhausted, no run
\* issues a backend call; a run that needs one waits for the next window or ends
\* with a rate-limit failure.
C10_NoCallWhenExhausted ==
    [][windowCalls >= max_rpm => calls' = calls]_vars

\* position of a run in the order Validating, Stage1Running, Stage1Done,
\* Stage2Running, Completed / Aborted
Rank(p, i) ==
    CASE p = "idle" -> 0
      [] p = "validated" -> 1
      [] p = "kickoff" -> 2
      [] p = "running" -> 2 * i + 1
      [] p = "task_done" -> 2 * i + 2
      [] p = "returned" -> 2 * Len(tasks) + 2
      [] p = "raised" -> 2 * Len(tasks) + 2

\* C11: a run only moves forward through its states (none is entered again once
\* left), a run that has returned or raised changes no more, and after a task
\* has failed no further backend call is issued for the run (no retry).
C11_ForwardOnlyNoRetry ==
    [][\A r \in Runs :
          /\ Rank(pc'[r], taskIdx'[r]) >= Rank(pc[r], taskIdx[r])
          /\ pc[r] \in Terminal =>
                /\ pc'[r] = pc[r]
                /\ taskIdx'[r] = taskIdx[r]
                /\ calls'[r] = calls[r]
                /\ output'[r] = output[r]
                /\ result'[r] = result[r]
                /\ error'[r] = error[r]
          /\ failure[r] # "none" =>
                /\ calls'[r] = calls[r]
                /\ failure'[r] = failure[r]]_vars

C11_Witness ==
    \E r \in Runs :
        /\ pc[r] = "raised"
        /\ failure[r] = "Timeout"
        /\ taskIdx[r] = 2
        /\ calls[r]["strategy_task"] = 3
        /\ rpmCount[r] = 0

-----------------------------------------------------------------------------
(* Successive calls of run_pricelens_pipeline in one process whose          *)
(* environment changes                                                      *)

\* os.environ is assigned to by the process between or during runs
SetEnv(e) ==
    /\ e # env
    /\ env' = e
    /\ UNCHANGED <<response, dotenv, windowCalls, pc, args, crew, rpmCount, taskIdx, iters,
                   calls, instructions, task_outputs, result, output, failure, error>>

\* the callers' discipline here: a run starts when the earlier ones have ended
Successive(r) == \A q \in Runs : q < r => pc[q] \in Terminal

EnvChanges ==
    {e \in Envs : /\ e.OPENAI_API_KEY = "sk-live"
                  /\ e.OPENAI_TEMPERATURE \in {None, "0.7"}
                  /\ (e.OPENAI_TEMPERATURE = None) <=> (e.OPENAI_MODEL_NAME = None)}

EnvResults == {o \in ConcResults : o.raw = <<"a">>}

EnvFailures == {"Timeout"}

InitEnv ==
    /\ env \in EnvChanges
    /\ dotenv = None
    /\ InitRuns

NextEnv ==
    \/ \E r \in Runs, a \in ConcArgs : Successive(r) /\ RunPipeline(r, a)
    \/ \E r \in Runs : BuildCrew(r)
    \/ \E r \in Runs : StartTask(r)
    \/ \E r \in Runs : Iterate(r)
    \/ \E r \in Runs, t \in ConcTexts : FinishTask(r, t)
    \/ \E r \in Runs, o \in EnvResults : FinishKickoff(r, o)
    \/ \E r \in Runs, f \in EnvFailures : FailTask(r, f)
    \/ \E e \in EnvChanges : SetEnv(e)

SpecEnv == InitEnv /\ [][NextEnv]_vars

Built(r) == crew[r] # NoCrew

Resolved(e) ==
    [model |-> IF e.OPENAI_MODEL_NAME = None THEN "gpt-4o-mini" ELSE e.OPENAI_MODEL_NAME,
     temperature |-> IF e.OPENAI_TEMPERATURE = "0.7" THEN 7 ELSE 2,
     max_tokens |-> 4000,
     api_key |-> e.OPENAI_API_KEY]

-----------------------------------------------------------------------------
(* POST /analyze (src/api.py): the request model and analyze_transcript *)

min_length == 10

\* AnalysisRequest: Field(min_length=10) and validate_transcript
RequestOk(t) == Len(t) >= min_length /\ ~(Len(Strip(t)) < 10)

\* validate_transcript returns v.strip(): the transcript the handler sees
RequestArgs(a) == [a EXCEPT !.transcript = Strip(@)]

\* the exceptions of the pipeline that are instances of ValueError
ValueErrors ==
    {"ValueError: Transcript must be at least 10 characters long",
     "ValueError: OPENAI_API_KEY is required",
     "ValueError: could not convert string to float"}

\* the try / except ValueError / except Exception of analyze_transcript
StatusFor(p, err) ==
    IF p = "returned" THEN 200
    ELSE IF err \in ValueErrors THEN 400
         ELSE 500

\* a request arrives: it is rejected by the request model (422) or the handler
\* calls run_pricelens_pipeline with its fields
Analyze(r, a) ==
    /\ pc[r] = "idle"
    /\ response[r] = 0
    /\ IF RequestOk(a.transcript)
       THEN RunPipeline(r, RequestArgs(a))
       ELSE /\ response' = [response EXCEPT ![r] = 422]
            /\ UNCHANGED <<procVars, pc, args, crew, rpmCount, taskIdx, iters, calls,
                           instructions, task_outputs, result, output, failure, error>>

\* the pipeline has returned or raised: the handler answers
Respond(r) ==
    /\ pc[r] \in Terminal
    /\ response[r] = 0
    /\ response' = [response EXCEPT ![r] = StatusFor(pc[r], error[r])]
    /\ UNCHANGED <<procVars, pc, args, crew, rpmCount, taskIdx, iters, calls,
                   instructions, task_outputs, result, output, failure, error>>

NextApi ==
    \/ \E r \in Solo, a \in AllArgs : Analyze(r, a)
    \/ \E r \in Solo : BuildCrew(r)
    \/ \E r \in Solo : StartTask(r)
    \/ \E r \in Solo : Iterate(r)
    \/ \E r \in Solo, t \in ConcTexts : FinishTask(r, t)
    \/ \E r \in Solo, o \in ResultObjects : FinishKickoff(r, o)
    \/ \E r \in Solo, f \in StageFailures : FailTask(r, f)
    \/ \E r \in Solo : Respond(r)

SpecApi == Init /\ [][NextApi]_vars

\* C13: /analyze answers 400 only when the pipeline failed its transcript check;
\* every other failure of the pipeline (credential, task failure) is answered
\* 500, and 200 is answered only when the pipeline returned a report.
C13_StatusMapping ==
    \A r \in Runs :
        /\ response[r] = 400 => error[r] = ValidationFailure
        /\ (response[r] # 0 /\ pc[r] = "raised" /\ error[r] # ValidationFailure) =>
              response[r] = 500
        /\ response[r] = 200 => (pc[r] = "returned" /\ output[r] # <<>>)

====
